---------------------------- MODULE Spec2Model ----------------------------
(***************************************************************************)
(* Manual filament change tracking: the pre-scan of a G-code file          *)
(* (tool_change_tracker.py) and the per-pause advance of the persisted     *)
(* cursor (update_tool_change.py).  Both are short-lived processes whose   *)
(* only shared state is the JSON state document at DATA_FILE.              *)
(*                                                                         *)
(* Representation.  A Python str whose characters matter (a hex colour) is *)
(* a sequence of one-character strings; a filament descriptor is the       *)
(* sequence of its parts under split(" "); other strings are TLA+ strings. *)
(* The content of the state document is a record with a field "shape":     *)
(* "absent" (no file), "garbage" (bytes json.load rejects, the empty file  *)
(* included), or what json.load returns.                                   *)
(***************************************************************************)
EXTENDS Integers, Sequences, FiniteSets, TLC

(***************************************************************************)
(* Bounds of the model.                                                    *)
(***************************************************************************)
\* processes (invocations in flight at the same time)
NumProcs == 2
\* lines of a scanned G-code file
MaxLines == 3
\* advance invocations counted by the sequential driver after a scan
MaxCalls == 4
\* characters after the "#" of a colour token given to the classifier
MaxHexDigits == 7

Procs == 1..NumProcs

(***************************************************************************)
(* State.                                                                  *)
(*   disk   the content of DATA_FILE                                       *)
(*   pc     where each process is: "idle" (not running), "open", "dump",   *)
(*          "report" (update_tool_change.py before 124, before 125's       *)
(*          flush at close, before 137), "replace" (tool_change_tracker.py *)
(*          before 218)                                                    *)
(*   loaded the document each running advance read at line 103             *)
(*   mem    the `data` dictionary of each running process, as changed      *)
(*          since                                                          *)
(*   stale  the processes whose open file is no longer the one at the      *)
(*          path, because os.replace() put another file there              *)
(*   out    the terminal output and exit status of each process's last run *)
(*   gcode  the G-code file of the sequential specification                *)
(*   calls  advance invocations made by the sequential driver since the    *)
(*          last scan that wrote the document                              *)
(*   env    the environment both scripts run in: the printer config        *)
(*          directory resolve_printer_config_dir() returns ("None" when it *)
(*          finds none) and the value of TOOL_CHANGES_JSON ("unset" when   *)
(*          the variable is not set)                                       *)
(*   tracker_file  the content of the DATA_FILE of tool_change_tracker.py  *)
(*          when that path is not the DATA_FILE of update_tool_change.py   *)
(* disk is the file at the DATA_FILE of update_tool_change.py.             *)
(***************************************************************************)
VARIABLES disk, pc, loaded, mem, stale, out, gcode, calls, env, tracker_file

vars == <<disk, pc, loaded, mem, stale, out, gcode, calls, env, tracker_file>>

(***************************************************************************)
(* tool_change_tracker.py: the colour classifier.                          *)
(***************************************************************************)
\* CSS_NAMED_COLORS.items() in iteration order, each <<r, g, b, name>>; the
\* literal's second "#FF00FF" key keeps Fuchsia's place and takes the name Magenta.
CSS_NAMED_COLORS ==
  << <<240, 248, 255, "AliceBlue">>, <<250, 235, 215, "AntiqueWhite">>, <<0, 255, 255, "Aqua">>,
     <<127, 255, 212, "Aquamarine">>, <<240, 255, 255, "Azure">>, <<245, 245, 220, "Beige">>,
     <<255, 228, 196, "Bisque">>, <<0, 0, 0, "Black">>, <<255, 235, 205, "BlanchedAlmond">>,
     <<0, 0, 255, "Blue">>, <<138, 43, 226, "BlueViolet">>, <<165, 42, 42, "Brown">>,
     <<222, 184, 135, "BurlyWood">>, <<95, 158, 160, "CadetBlue">>, <<127, 255, 0, "Chartreuse">>,
     <<210, 105, 30, "Chocolate">>, <<255, 127, 80, "Coral">>, <<100, 149, 237, "CornflowerBlue">>,
     <<255, 248, 220, "Cornsilk">>, <<220, 20, 60, "Crimson">>, <<0, 0, 139, "DarkBlue">>,
     <<0, 139, 139, "DarkCyan">>, <<184, 134, 11, "DarkGoldenRod">>, <<169, 169, 169, "DarkGray">>,
     <<0, 100, 0, "DarkGreen">>, <<189, 183, 107, "DarkKhaki">>, <<139, 0, 139, "DarkMagenta">>,
     <<85, 107, 47, "DarkOliveGreen">>, <<255, 140, 0, "DarkOrange">>, <<153, 50, 204, "DarkOrchid">>,
     <<139, 0, 0, "DarkRed">>, <<233, 150, 122, "DarkSalmon">>, <<143, 188, 143, "DarkSeaGreen">>,
     <<72, 61, 139, "DarkSlateBlue">>, <<47, 79, 79, "DarkSlateGray">>, <<0, 206, 209, "DarkTurquoise">>,
     <<148, 0, 211, "DarkViolet">>, <<255, 20, 147, "DeepPink">>, <<0, 191, 255, "DeepSkyBlue">>,
     <<105, 105, 105, "DimGray">>, <<30, 144, 255, "DodgerBlue">>, <<178, 34, 34, "FireBrick">>,
     <<255, 250, 240, "FloralWhite">>, <<34, 139, 34, "ForestGreen">>, <<255, 0, 255, "Magenta">>,
     <<220, 220, 220, "Gainsboro">>, <<255, 215, 0, "Gold">>, <<218, 165, 32, "GoldenRod">>,
     <<128, 128, 128, "Gray">>, <<0, 128, 0, "Green">>, <<173, 255, 47, "GreenYellow">>,
     <<240, 255, 240, "HoneyDew">>, <<255, 105, 180, "HotPink">>, <<205, 92, 92, "IndianRed">>,
     <<75, 0, 130, "Indigo">>, <<255, 255, 240, "Ivory">>, <<240, 230, 140, "Khaki">>,
     <<230, 230, 250, "Lavender">>, <<255, 240, 245, "LavenderBlush">>, <<124, 252, 0, "LawnGreen">>,
     <<255, 250, 205, "LemonChiffon">>, <<173, 216, 230, "LightBlue">>, <<240, 128, 128, "LightCoral">>,
     <<224, 255, 255, "LightCyan">>, <<211, 211, 211, "LightGray">>, <<144, 238, 144, "LightGreen">>,
     <<255, 182, 193, "LightPink">>, <<255, 160, 122, "LightSalmon">>, <<32, 178, 170, "LightSeaGreen">>,
     <<135, 206, 250, "LightSkyBlue">>, <<176, 196, 222, "LightSteelBlue">>, <<255, 255, 224, "LightYellow">>,
     <<0, 255, 0, "Lime">>, <<50, 205, 50, "LimeGreen">>, <<128, 0, 0, "Maroon">>,
     <<0, 0, 128, "Navy">>, <<128, 128, 0, "Olive">>, <<255, 165, 0, "Orange">>,
     <<255, 69, 0, "OrangeRed">>, <<218, 112, 214, "Orchid">>, <<238, 232, 170, "PaleGoldenRod">>,
     <<152, 251, 152, "PaleGreen">>, <<175, 238, 238, "PaleTurquoise">>, <<219, 112, 147, "PaleVioletRed">>,
     <<255, 218, 185, "PeachPuff">>, <<205, 133, 63, "Peru">>, <<255, 192, 203, "Pink">>,
     <<221, 160, 221, "Plum">>, <<176, 224, 230, "PowderBlue">>, <<128, 0, 128, "Purple">>,
     <<255, 0, 0, "Red">>, <<188, 143, 143, "RosyBrown">>, <<65, 105, 225, "RoyalBlue">>,
     <<139, 69, 19, "SaddleBrown">>, <<250, 128, 114, "Salmon">>, <<244, 164, 96, "SandyBrown">>,
     <<46, 139, 87, "SeaGreen">>, <<160, 82, 45, "Sienna">>, <<192, 192, 192, "Silver">>,
     <<135, 206, 235, "SkyBlue">>, <<106, 90, 205, "SlateBlue">>, <<112, 128, 144, "SlateGray">>,
     <<255, 250, 250, "Snow">>, <<0, 255, 127, "SpringGreen">>, <<70, 130, 180, "SteelBlue">>,
     <<210, 180, 140, "Tan">>, <<0, 128, 128, "Teal">>, <<216, 191, 216, "Thistle">>,
     <<255, 99, 71, "Tomato">>, <<64, 224, 208, "Turquoise">>, <<238, 130, 238, "Violet">>,
     <<245, 222, 179, "Wheat">>, <<255, 255, 255, "White">>, <<255, 255, 0, "Yellow">>,
     <<154, 205, 50, "YellowGreen">> >>

HexDigits ==
  [c \in {"0","1","2","3","4","5","6","7","8","9"} |->
      CASE c = "0" -> 0 [] c = "1" -> 1 [] c = "2" -> 2 [] c = "3" -> 3
        [] c = "4" -> 4 [] c = "5" -> 5 [] c = "6" -> 6 [] c = "7" -> 7
        [] c = "8" -> 8 [] c = "9" -> 9]
  @@ [c \in {"A","B","C","D","E","F"} |->
      CASE c = "A" -> 10 [] c = "B" -> 11 [] c = "C" -> 12
        [] c = "D" -> 13 [] c = "E" -> 14 [] c = "F" -> 15]
  @@ [c \in {"a","b","c","d","e","f"} |->
      CASE c = "a" -> 10 [] c = "b" -> 11 [] c = "c" -> 12
        [] c = "d" -> 13 [] c = "e" -> 14 [] c = "f" -> 15]

IsHex(c) == c \in DOMAIN HexDigits

\* Python s[i:i+2] for a 0-based i: the characters that exist, no error.
Slice2(s, i) ==
  SubSeq(s, i + 1, IF i + 2 <= Len(s) THEN i + 2 ELSE Len(s))

\* Python int(x, 16) on a string of at most two characters: surrounding
\* whitespace is stripped, one sign is accepted, the rest must be hex digits
\* and not empty.  ok = FALSE stands for ValueError.
Int16(x) ==
  LET stripL == IF Len(x) > 0 /\ x[1] = " " THEN Tail(x) ELSE x
      strip  == IF Len(stripL) > 0 /\ stripL[Len(stripL)] = " "
                  THEN SubSeq(stripL, 1, Len(stripL) - 1) ELSE stripL
      signed == Len(strip) > 0 /\ strip[1] \in {"+", "-"}
      digits == IF signed THEN Tail(strip) ELSE strip
      sign   == IF signed /\ strip[1] = "-" THEN -1 ELSE 1
      value  == IF Len(digits) = 1 THEN HexDigits[digits[1]]
                ELSE 16 * HexDigits[digits[1]] + HexDigits[digits[2]]
  IN IF Len(digits) = 0 \/ \E k \in 1..Len(digits) : ~IsHex(digits[k])
       THEN [ok |-> FALSE, v |-> 0]
       ELSE [ok |-> TRUE, v |-> sign * value]

\* (r1-r2)^2 + (g1-g2)^2 + (b1-b2)^2 : sqrt is strictly increasing, so the
\* comparison of the distances is the comparison of their squares.
Distance2(r1, g1, b1, css) ==
  (r1 - css[1]) * (r1 - css[1]) + (g1 - css[2]) * (g1 - css[2])
    + (b1 - css[3]) * (b1 - css[3])

\* The loop over CSS_NAMED_COLORS.items() restricted to the entries lo..hi: the
\* (closest_color, min_distance) it ends with.  An entry replaces the one kept
\* only when its distance is strictly smaller (line 300), so of two halves the
\* later one wins only with a strictly smaller distance.
RECURSIVE ClosestLoop(_, _, _, _, _)
ClosestLoop(r1, g1, b1, lo, hi) ==
  IF lo = hi
    THEN [min_distance |-> Distance2(r1, g1, b1, CSS_NAMED_COLORS[lo]),
          closest_color |-> CSS_NAMED_COLORS[lo][4]]
    ELSE LET mid == (lo + hi) \div 2
             first == ClosestLoop(r1, g1, b1, lo, mid)
             later == ClosestLoop(r1, g1, b1, mid + 1, hi)
         IN IF later.min_distance < first.min_distance THEN later ELSE first

\* lines 291-307; a ValueError of int() is the handler's "Unknown"
closest_css_color(hex_color) ==
  LET r == Int16(Slice2(hex_color, 1))
      g == Int16(Slice2(hex_color, 3))
      b == Int16(Slice2(hex_color, 5))
  IN IF ~(r.ok /\ g.ok /\ b.ok) THEN "Unknown"
     ELSE ClosestLoop(r.v, g.v, b.v, 1, Len(CSS_NAMED_COLORS)).closest_color

(***************************************************************************)
(* tool_change_tracker.py: the filament metadata extractor.                *)
(*                                                                         *)
(* A G-code line is one of                                                 *)
(*   [kind |-> "other"]                                                    *)
(*   [kind |-> "marker", tool |-> n]     "; MANUAL_TOOL_CHANGE T<n>"       *)
(*   [kind |-> "colour", value |-> FALSE/TRUE, tokens |-> <<hex, ...>>]    *)
(*   [kind |-> "settings", value |-> FALSE/TRUE, descs |-> <<parts, ...>>] *)
(* value = FALSE is a directive line with no " = " in it, so that          *)
(* split(" = ") has no element [1].  tokens is split(";") of the value,    *)
(* descs the double-quoted strings of the value, each as its split(" ").   *)
(***************************************************************************)
UnknownType ==
  [brand |-> "Unknown", material |-> "Unknown", full_name |-> <<"Unknown">>]

\* lines 327-330: what one "; filament_colour =" line appends to colors
RECURSIVE ColourTokens(_, _)
ColourTokens(tokens, k) ==
  IF k > Len(tokens) THEN << >>
  ELSE LET hex_color == tokens[k]
       IN (IF Len(hex_color) > 0 /\ hex_color[1] = "#"
             THEN << <<hex_color, closest_css_color(hex_color)>> >>
             ELSE << >>)
          \o ColourTokens(tokens, k + 1)

\* lines 339-347: what one "; filament_settings_id =" line appends to types
RECURSIVE SettingsTypes(_, _)
SettingsTypes(descs, k) ==
  IF k > Len(descs) THEN << >>
  ELSE LET parts == descs[k]
       IN << IF Len(parts) >= 2
               THEN [brand |-> parts[1], material |-> parts[2], full_name |-> parts]
               ELSE [brand |-> "Unknown", material |-> "Unknown", full_name |-> parts] >>
          \o SettingsTypes(descs, k + 1)

\* lines 324-347: the loop over the lines.  raised = TRUE when a line raised
\* (IndexError of split(" = ")[1]): the loop is left for the handler at 362.
RECURSIVE ExtractLoop(_, _, _)
ExtractLoop(content, k, acc) ==
  IF k > Len(content) THEN acc
  ELSE LET line == content[k]
       IN IF line.kind \in {"colour", "settings"} /\ ~line.value
            THEN [acc EXCEPT !.raised = TRUE]
          ELSE IF line.kind = "colour"
            THEN ExtractLoop(content, k + 1,
                   [acc EXCEPT !.colors = @ \o ColourTokens(line.tokens, 1)])
          ELSE IF line.kind = "settings"
            THEN ExtractLoop(content, k + 1,
                   [acc EXCEPT !.types = @ \o SettingsTypes(line.descs, 1)])
          ELSE ExtractLoop(content, k + 1, acc)

\* lines 350-360: colors and types matched by position
MatchColorsTypes(colors, types) ==
  LET n == IF Len(colors) >= Len(types) THEN Len(colors) ELSE Len(types)
  IN [i \in 1..n |->
        LET color_info == IF i <= Len(colors) THEN colors[i]
                          ELSE << <<"#","F","F","F","F","F","F">>, "Unknown" >>
            type_info == IF i <= Len(types) THEN types[i] ELSE UnknownType
        IN [hex_color |-> color_info[1], color_name |-> color_info[2],
            brand |-> type_info.brand, material |-> type_info.material,
            full_name |-> type_info.full_name]]

\* lines 366-375: the fallback list
DefaultFilamentInfo ==
  LET default_colors == <<"Yellow", "Blue", "Silver", "Green", "White">>
      digit == <<"0", "1", "2", "3", "4">>
  IN [i \in 1..5 |->
        [hex_color |-> <<"#", digit[i]>>, color_name |-> default_colors[i],
         brand |-> "Unknown", material |-> "Unknown", full_name |-> <<"Unknown">>]]

\* gcode_file: [exists, gcode, readable, lines].  An unreadable file raises in
\* open(), a malformed directive raises in the loop; both leave filament_info
\* empty, because the matching at 350 is inside the same try.
extract_filament_info(gcode_file) ==
  LET acc == IF gcode_file.readable
               THEN ExtractLoop(gcode_file.lines, 1,
                      [colors |-> << >>, types |-> << >>, raised |-> FALSE])
               ELSE [colors |-> << >>, types |-> << >>, raised |-> TRUE]
      filament_info == IF acc.raised THEN << >>
                       ELSE MatchColorsTypes(acc.colors, acc.types)
  IN IF filament_info = << >> THEN DefaultFilamentInfo ELSE filament_info

(***************************************************************************)
(* tool_change_tracker.py: the scanner.                                    *)
(***************************************************************************)
\* mutant of ToolChangeEvent: a tool number past the end of the list wraps
\* around to the start of the list
ToolChangeEvent_WrapsAround(filament_info, tool_number, line_number) ==
  LET info == filament_info[(tool_number % Len(filament_info)) + 1]
  IN [tool_number |-> tool_number, color |-> info.color_name,
      brand |-> info.brand, material |-> info.material,
      full_name |-> info.full_name, line |-> line_number]

\* mutant of ToolChangeEvent: the line counted from 0, as enumerate(f) would
ToolChangeEvent_ZeroBased(filament_info, tool_number, line_number) ==
  [tool_number |-> tool_number,
   color |-> IF tool_number < Len(filament_info)
               THEN filament_info[tool_number + 1].color_name ELSE "Unknown",
   brand |-> IF tool_number < Len(filament_info)
               THEN filament_info[tool_number + 1].brand ELSE "Unknown",
   material |-> IF tool_number < Len(filament_info)
                  THEN filament_info[tool_number + 1].material ELSE "Unknown",
   full_name |-> IF tool_number < Len(filament_info)
                   THEN filament_info[tool_number + 1].full_name ELSE <<"Unknown">>,
   line |-> line_number - 1]

\* lines 423-444: the event of one marker line
ToolChangeEvent(filament_info, tool_number, line_number) ==
  IF tool_number < Len(filament_info)
    THEN LET info == filament_info[tool_number + 1]
         IN [tool_number |-> tool_number, color |-> info.color_name,
             brand |-> info.brand, material |-> info.material,
             full_name |-> info.full_name, line |-> line_number]
    ELSE [tool_number |-> tool_number, color |-> "Unknown",
          brand |-> "Unknown", material |-> "Unknown",
          full_name |-> <<"Unknown">>, line |-> line_number]

\* lines 417-444: enumerate(f, 1) over the lines, data updated per marker
RECURSIVE ScanLoop(_, _, _, _)
ScanLoop(lines, filament_info, line_number, data) ==
  IF line_number > Len(lines) THEN data
  ELSE ScanLoop(lines, filament_info, line_number + 1,
         IF lines[line_number].kind = "marker"
           THEN [data EXCEPT
                   !.total_changes = @ + 1,
                   !.changes = Append(@, ToolChangeEvent(filament_info,
                                  lines[line_number].tool, line_number))]
           ELSE data)

\* line 417: a JSON object with the three keys, none of a wrong type
\* (missing and wrong are explained with the state document below)
Document(total, current, changes) ==
  [shape |-> "dict", missing |-> {}, wrong |-> {},
   total_changes |-> total, current_change |-> current, changes |-> changes]

\* mutant of EmptyDocument: the cursor of a fresh scan starts at 1
EmptyDocument_CursorOne == Document(0, 1, << >>)

EmptyDocument == Document(0, 0, << >>)

\* mutant of pre_scan_gcode: the dry-run flag is not looked at
pre_scan_gcode_IgnoresDryRun(target, dry_run) ==
  IF ~target.found \/ ~target.exists \/ ~target.gcode
    THEN [status |-> 1, early |-> TRUE, write |-> FALSE, data |-> EmptyDocument]
  ELSE IF ~target.readable
    THEN [status |-> 1, early |-> FALSE, write |-> FALSE, data |-> EmptyDocument]
    ELSE [status |-> 0, early |-> FALSE, write |-> TRUE,
          data |-> ScanLoop(target.lines, extract_filament_info(target), 1,
                            EmptyDocument)]

\* mutant of pre_scan_gcode: a target that cannot be scanned is taken for a
\* job of no events instead of being rejected
pre_scan_gcode_DefaultsOnError(target, dry_run) ==
  IF ~target.found \/ ~target.exists \/ ~target.gcode \/ ~target.readable
    THEN [status |-> 0, early |-> FALSE, write |-> ~dry_run, data |-> EmptyDocument]
    ELSE [status |-> 0, early |-> FALSE, write |-> ~dry_run,
          data |-> ScanLoop(target.lines, extract_filament_info(target), 1,
                            EmptyDocument)]

\* pre_scan_gcode up to the decision at 446: target is [found |-> FALSE]
\* (no path given and find_latest_gcode() found nothing) or a file.
\* status 1 is an early return of 397-407 (early = TRUE) or the handler at
\* 456, reached when open() at 419 raises on an unreadable file.
pre_scan_gcode(target, dry_run) ==
  IF ~target.found \/ ~target.exists \/ ~target.gcode
    THEN [status |-> 1, early |-> TRUE, write |-> FALSE, data |-> EmptyDocument]
  ELSE IF ~target.readable
    THEN [status |-> 1, early |-> FALSE, write |-> FALSE, data |-> EmptyDocument]
    ELSE [status |-> 0, early |-> FALSE, write |-> ~dry_run,
          data |-> ScanLoop(target.lines, extract_filament_info(target), 1,
                            EmptyDocument)]
(***************************************************************************)
(* The state document.  What json.load returns for a JSON object is        *)
(*   [shape |-> "dict", missing, wrong, total_changes, current_change,     *)
(*    changes]                                                             *)
(* where missing is the set of the three keys the object does not have and *)
(* wrong the set of present keys whose value has the wrong type: a JSON    *)
(* string holding the decimal digit of the number for the two counters, a  *)
(* JSON object for changes.  Every document the programs write has         *)
(* missing = wrong = {}.                                                   *)
(***************************************************************************)
Keys == {"total_changes", "current_change", "changes"}

Absent == [shape |-> "absent"]
Garbage == [shape |-> "garbage"]
NotMapping == [shape |-> "list"]

\* tool_change_tracker.py lines 147-183
safe_read_json(file) ==
  LET default_data == Document(0, 0, << >>)
  IN IF file.shape = "absent" THEN default_data
     ELSE IF file.shape = "garbage" THEN default_data
     ELSE IF file.shape # "dict" THEN default_data
     ELSE IF file.missing # {} THEN default_data
     ELSE IF "total_changes" \in file.wrong \/ "current_change" \in file.wrong
       THEN default_data
     ELSE IF "changes" \in file.wrong THEN default_data
     ELSE file

\* mutant of safe_write_json: the cursor of the document already on disk is
\* kept (a merge instead of a replacement)
safe_write_json_KeepCursor(data) ==
  IF data.shape # "dict" \/ data.missing # {}
    THEN [raised |-> TRUE, file |-> Absent]
    ELSE [raised |-> FALSE,
          file |-> [data EXCEPT !.current_change =
                      IF disk.shape = "dict" THEN disk.current_change ELSE @]]

\* tool_change_tracker.py lines 193-218: the document os.replace() puts at the
\* path; raised = TRUE is the ValueError of the validation at 195-201.
safe_write_json(data) ==
  IF data.shape # "dict" \/ data.missing # {}
    THEN [raised |-> TRUE, file |-> Absent]
    ELSE [raised |-> FALSE, file |-> data]

(***************************************************************************)
(* update_tool_change.py                                                   *)
(***************************************************************************)
\* what the process leaves on the terminal and its exit status
NoOut == [kind |-> "none"]
NotFound == [kind |-> "not_found", status |-> 1]
Traceback == [kind |-> "traceback", status |-> 1]
Completed == [kind |-> "completed", status |-> 0]
Killed == [kind |-> "killed", status |-> 137]

\* mutant of Increment: total_changes kept as the count of the changes left
Increment_CountsDown(data) ==
  [data EXCEPT !.current_change = @ + 1, !.missing = @ \ {"current_change"},
               !.total_changes = @ - 1]

\* mutant of Increment: the cursor moves by two
Increment_ByTwo(data) ==
  [data EXCEPT !.current_change = @ + 2, !.missing = @ \ {"current_change"}]

\* lines 114-115
Increment(data) ==
  [data EXCEPT !.current_change = @ + 1, !.missing = @ \ {"current_change"}]

\* mutant of ChangeMessage: the event after the one just reached, as
\* data["changes"][current_change] would give it
ChangeMessage_NextEvent(data) ==
  LET next == IF data.current_change < Len(data.changes)
                THEN data.current_change + 1 ELSE data.current_change
      change_info == data.changes[next]
  IN [kind |-> "change", status |-> 0,
      current_change |-> data.current_change, total_changes |-> data.total_changes,
      tool_number |-> change_info.tool_number, color |-> change_info.color,
      line |-> change_info.line]

\* lines 118-121 and 137: the message of the change just reached
ChangeMessage(data) ==
  LET change_info == data.changes[data.current_change]
  IN [kind |-> "change", status |-> 0,
      current_change |-> data.current_change, total_changes |-> data.total_changes,
      tool_number |-> change_info.tool_number, color |-> change_info.color,
      line |-> change_info.line]

\* mutant of Exists: the check of line 97 left out
Exists_Always(file) == TRUE

\* line 97: os.path.exists(DATA_FILE)
Exists(file) == file.shape # "absent"

\* mutant of AllProcessed: > for >=
AllProcessed_Strict(current_change, total_changes) == current_change > total_changes

\* line 109
AllProcessed(current_change, total_changes) == current_change >= total_changes

\* lines 97-121: from the file at DATA_FILE to the exit taken or to the data
\* about to be written.  next = "exit" carries the terminal output, next =
\* "write" the incremented data.
LoadAndDecide(file) ==
  IF ~Exists(file) THEN [next |-> "exit", out |-> NotFound]
  \* 102-103: open() of no file, or json.load of what is not JSON, raises
  ELSE IF file.shape \in {"absent", "garbage"} THEN [next |-> "exit", out |-> Traceback]
  \* 105: a list has no get()
  ELSE IF file.shape # "dict" THEN [next |-> "exit", out |-> Traceback]
  ELSE
    LET total_str == "total_changes" \in file.wrong
        current_str == "current_change" \in file.wrong
        total_changes == IF "total_changes" \in file.missing THEN 0
                         ELSE file.total_changes
        current_change == IF "current_change" \in file.missing THEN 0
                          ELSE file.current_change
        data == Increment([file EXCEPT !.current_change = current_change])
    IN \* 109: >= between an int and a str raises; between two str it compares
       \* the digits
       IF total_str # current_str THEN [next |-> "exit", out |-> Traceback]
       ELSE IF AllProcessed(current_change, total_changes)
         THEN [next |-> "exit", out |-> Completed]
       \* 114: str += 1 raises
       ELSE IF current_str THEN [next |-> "exit", out |-> Traceback]
       \* 118: KeyError of a missing key or of an object indexed by an int
       ELSE IF "changes" \in (file.missing \cup file.wrong)
         THEN [next |-> "exit", out |-> Traceback]
       \* 118: IndexError
       ELSE IF data.current_change > Len(data.changes)
         THEN [next |-> "exit", out |-> Traceback]
       ELSE [next |-> "write", data |-> data]

\* the whole of update_tool_change() when nothing else runs meanwhile
update_tool_change(file) ==
  LET r == LoadAndDecide(file)
  IN IF r.next = "exit" THEN [file |-> file, out |-> r.out]
     ELSE [file |-> r.data, out |-> ChangeMessage(r.data)]

\* tool_change_tracker.py 453-458: what a scan leaves on the terminal
ScanOk(data) == [kind |-> "scan_ok", status |-> 0, found |-> data.total_changes]
\* tool_change_tracker.py 446-448 and 453-454: the same after a dry run, with
\* "DRY RUN: Would write to" logged in place of "Data saved to"
DryRunOk(data) ==
  [kind |-> "scan_ok", status |-> 0, found |-> data.total_changes, dry_run |-> TRUE]
ScanError == [kind |-> "scan_error", status |-> 1]
\* tool_change_tracker.py 397-407: the target is rejected before it is read
ScanRejected == [kind |-> "scan_error", status |-> 1, early |-> TRUE]

(***************************************************************************)
(* Inputs.                                                                 *)
(***************************************************************************)
Red == <<"#", "F", "F", "0", "0", "0", "0">>
Blue == <<"#", "0", "0", "0", "0", "F", "F">>

LineChoices ==
  { [kind |-> "other"],
    [kind |-> "marker", tool |-> 0],
    [kind |-> "marker", tool |-> 1],
    [kind |-> "marker", tool |-> 2],
    [kind |-> "marker", tool |-> 7],
    [kind |-> "colour", value |-> TRUE, tokens |-> <<Red, Blue>>],
    [kind |-> "colour", value |-> FALSE, tokens |-> << >>],
    [kind |-> "settings", value |-> TRUE,
       descs |-> << <<"Prusament", "PLA">>, <<"Generic", "PETG">> >>] }

RECURSIVE LineSeqs(_)
LineSeqs(n) ==
  IF n = 0 THEN { << >> }
  ELSE LET shorter == LineSeqs(n - 1)
       IN shorter \cup { Append(s, l) : s \in {t \in shorter : Len(t) = n - 1},
                                         l \in LineChoices }

GcodeFile(lines) ==
  [found |-> TRUE, exists |-> TRUE, gcode |-> TRUE, readable |-> TRUE, lines |-> lines]

BadTargets ==
  { [found |-> FALSE, exists |-> FALSE, gcode |-> FALSE, readable |-> FALSE, lines |-> << >>],
    [found |-> TRUE, exists |-> FALSE, gcode |-> TRUE, readable |-> FALSE, lines |-> << >>],
    [found |-> TRUE, exists |-> TRUE, gcode |-> FALSE, readable |-> TRUE,
       lines |-> << [kind |-> "marker", tool |-> 0] >>],
    [found |-> TRUE, exists |-> TRUE, gcode |-> TRUE, readable |-> FALSE,
       lines |-> << [kind |-> "marker", tool |-> 0] >>] }

ScanTargets == { GcodeFile(ls) : ls \in LineSeqs(MaxLines) } \cup BadTargets

\* the colour tokens that reach closest_css_color (line 329 passes those that
\* start with "#"): "#" and up to MaxHexDigits characters, each a hex digit
\* or not
HexAlphabet == {"0", "F", "G"}

RECURSIVE HexInputs(_)
HexInputs(n) ==
  IF n = 0 THEN { <<"#">> }
  ELSE LET shorter == HexInputs(n - 1)
       IN shorter \cup { Append(h, c) : h \in {t \in shorter : Len(t) = n},
                                         c \in HexAlphabet }

\* a file that declares one colour and changes to tool 0
ColourTargets ==
  { GcodeFile(<< [kind |-> "colour", value |-> TRUE, tokens |-> <<h>>],
                 [kind |-> "marker", tool |-> 0] >>) : h \in HexInputs(MaxHexDigits) }

\* the jobs of the concurrent specification: no marker, two markers with
\* slicer colours, three markers without metadata, and the targets that
\* cannot be scanned
JobTargets ==
  { GcodeFile(<< [kind |-> "other"] >>),
    GcodeFile(<< [kind |-> "colour", value |-> TRUE, tokens |-> <<Red, Blue>>],
                 [kind |-> "marker", tool |-> 0],
                 [kind |-> "marker", tool |-> 1] >>),
    GcodeFile(<< [kind |-> "marker", tool |-> 1],
                 [kind |-> "marker", tool |-> 0],
                 [kind |-> "marker", tool |-> 7] >>) }
    \cup BadTargets

\* resolve_printer_config_dir() finds a directory or returns None; the value
\* of TOOL_CHANGES_JSON, when set, is a file name
Environments ==
  [config_dir : {"None", "/home/pi/printer_data/config"},
   TOOL_CHANGES_JSON : {"unset", "tool_changes.json", "job.json"}]

\* the installation of the specifications Spec, SpecSeq and SpecLoad: a
\* config directory is found and TOOL_CHANGES_JSON is not set
DefaultEnv ==
  [config_dir |-> "/home/pi/printer_data/config", TOOL_CHANGES_JSON |-> "unset"]

\* tool_change_tracker.py 108-116: DATA_FILE as <<directory, file name>>
DATA_FILE_scan(e) ==
  IF e.config_dir # "None"
    THEN <<e.config_dir, IF e.TOOL_CHANGES_JSON = "unset" THEN "tool_changes.json"
                         ELSE e.TOOL_CHANGES_JSON>>
    ELSE <<"/tmp", "tool_change_data.json">>

\* update_tool_change.py 88-93: DATA_FILE as <<directory, file name>>
DATA_FILE_advance(e) ==
  IF e.config_dir # "None"
    THEN <<e.config_dir, "tool_changes.json">>
    ELSE <<"/tmp", "tool_change_data.json">>

NoData == [shape |-> "none"]

Init ==
  /\ disk = Absent
  /\ pc = [p \in Procs |-> "idle"]
  /\ loaded = [p \in Procs |-> NoData]
  /\ mem = [p \in Procs |-> NoData]
  /\ stale = {}
  /\ out = [p \in Procs |-> NoOut]
  /\ gcode = GcodeFile(<< >>)
  /\ calls = 0
  /\ env = DefaultEnv
  /\ tracker_file = Absent

(***************************************************************************)
(* update_tool_change.py, step by step.                                    *)
(***************************************************************************)
\* lines 97-121: exists, open "r", json.load, the decision
AdvLoad(p) ==
  /\ pc[p] = "idle"
  /\ LET r == LoadAndDecide(disk)
     IN IF r.next = "exit"
          THEN /\ out' = [out EXCEPT ![p] = r.out]
               /\ UNCHANGED <<pc, loaded, mem>>
          ELSE /\ pc' = [pc EXCEPT ![p] = "open"]
               /\ loaded' = [loaded EXCEPT ![p] = disk]
               /\ mem' = [mem EXCEPT ![p] = r.data]
               /\ out' = [out EXCEPT ![p] = NoOut]
  /\ UNCHANGED <<disk, stale, gcode, env, tracker_file, calls>>

\* mutant of AdvOpen: the change is reported before the document is written
AdvOpen_ReportsFirst(p) ==
  /\ pc[p] = "open"
  /\ disk' = Garbage
  /\ pc' = [pc EXCEPT ![p] = "dump"]
  /\ out' = [out EXCEPT ![p] = ChangeMessage(mem[p])]
  /\ UNCHANGED <<loaded, mem, stale, gcode, env, tracker_file, calls>>

\* mutant of AdvOpen: the document is read again and incremented in the
\* step that opens it for writing, as under a lock held from read to write
AdvOpen_Rereads(p) ==
  /\ pc[p] = "open"
  /\ disk' = Garbage
  /\ pc' = [pc EXCEPT ![p] = "dump"]
  /\ mem' = [mem EXCEPT ![p] =
               IF disk.shape = "dict" /\ disk.current_change < disk.total_changes
                 THEN Increment(disk) ELSE @]
  /\ UNCHANGED <<loaded, stale, out, gcode, env, tracker_file, calls>>

\* line 124: open(DATA_FILE, "w") truncates the file at the path
AdvOpen(p) ==
  /\ pc[p] = "open"
  /\ disk' = Garbage
  /\ pc' = [pc EXCEPT ![p] = "dump"]
  /\ UNCHANGED <<loaded, mem, stale, out, gcode, env, tracker_file, calls>>

\* line 125 and the close of the with block: the text reaches the open file,
\* which is the file at the path unless a scan replaced it meanwhile.  (Two
\* advances writing the same file leave the text of the later one: their
\* texts are taken to have the same length.)
AdvDump(p) ==
  /\ pc[p] = "dump"
  /\ disk' = IF p \in stale THEN disk ELSE mem[p]
  /\ stale' = stale \ {p}
  /\ pc' = [pc EXCEPT ![p] = "report"]
  /\ UNCHANGED <<loaded, mem, out, gcode, env, tracker_file, calls>>

\* line 137 (128-134 change the owner only)
AdvReport(p) ==
  /\ pc[p] = "report"
  /\ out' = [out EXCEPT ![p] = ChangeMessage(mem[p])]
  /\ pc' = [pc EXCEPT ![p] = "idle"]
  /\ loaded' = [loaded EXCEPT ![p] = NoData]
  /\ mem' = [mem EXCEPT ![p] = NoData]
  /\ UNCHANGED <<disk, stale, gcode, env, tracker_file, calls>>

(***************************************************************************)
(* tool_change_tracker.py scan, step by step.                              *)
(***************************************************************************)
\* pre_scan_gcode 379-458 applied to every file a run can be given, tabulated
\* once: the scan is a pure function of the file and the dry-run flag.
ScanResults ==
  [target \in ScanTargets \cup JobTargets \cup ColourTargets |->
     [dry_run \in BOOLEAN |-> pre_scan_gcode(target, dry_run)]]

\* the same for the jobs of the concurrent specification
JobResults ==
  [target \in JobTargets |->
     [dry_run \in BOOLEAN |-> pre_scan_gcode(target, dry_run)]]

\* pre_scan_gcode 394-448 and safe_write_json 193-215: the scan, and the
\* temporary file written beside DATA_FILE
ScanStart(p, target, dry_run) ==
  /\ pc[p] = "idle"
  /\ \E r \in {JobResults[target][dry_run]} :
        IF r.status # 0
          THEN /\ out' = [out EXCEPT ![p] = IF r.early THEN ScanRejected
                                               ELSE ScanError]
               /\ UNCHANGED <<pc, mem>>
        ELSE IF ~r.write
          THEN /\ out' = [out EXCEPT ![p] = DryRunOk(r.data)]
               /\ UNCHANGED <<pc, mem>>
        ELSE /\ pc' = [pc EXCEPT ![p] = "replace"]
             /\ mem' = [mem EXCEPT ![p] = r.data]
             /\ out' = [out EXCEPT ![p] = NoOut]
  /\ UNCHANGED <<disk, loaded, stale, gcode, env, tracker_file, calls>>

\* safe_write_json 218 and pre_scan_gcode 451-454: os.replace() puts the
\* temporary file at the path; a process that has the old file open for
\* writing keeps writing the old file
ScanReplace(p) ==
  /\ pc[p] = "replace"
  /\ IF DATA_FILE_scan(env) = DATA_FILE_advance(env)
       THEN /\ disk' = safe_write_json(mem[p]).file
            /\ stale' = stale \cup {q \in Procs : pc[q] = "dump"}
            /\ UNCHANGED tracker_file
       ELSE /\ tracker_file' = safe_write_json(mem[p]).file
            /\ UNCHANGED <<disk, stale>>
  /\ out' = [out EXCEPT ![p] = ScanOk(mem[p])]
  /\ pc' = [pc EXCEPT ![p] = "idle"]
  /\ mem' = [mem EXCEPT ![p] = NoData]
  /\ UNCHANGED <<loaded, gcode, env, calls>>

\* safe_write_json 231-239 and pre_scan_gcode 456-458: mkstemp, the write or
\* the rename raised; the temporary file is removed and the scan returns 1
ScanWriteError(p) ==
  /\ pc[p] = "replace"
  /\ out' = [out EXCEPT ![p] = ScanError]
  /\ pc' = [pc EXCEPT ![p] = "idle"]
  /\ mem' = [mem EXCEPT ![p] = NoData]
  /\ UNCHANGED <<disk, loaded, stale, gcode, env, tracker_file, calls>>

\* a process is killed (power loss, SIGKILL) between two of its steps:
\* nothing it holds in memory or in an unflushed buffer reaches the disk
Crash(p) ==
  /\ pc[p] # "idle"
  /\ out' = [out EXCEPT ![p] = Killed]
  /\ pc' = [pc EXCEPT ![p] = "idle"]
  /\ loaded' = [loaded EXCEPT ![p] = NoData]
  /\ mem' = [mem EXCEPT ![p] = NoData]
  /\ stale' = stale \ {p}
  /\ UNCHANGED <<disk, gcode, env, tracker_file, calls>>

Next ==
  \E p \in Procs :
    \/ AdvLoad(p)
    \/ AdvOpen(p)
    \/ AdvDump(p)
    \/ AdvReport(p)
    \/ \E target \in JobTargets, dry_run \in BOOLEAN : ScanStart(p, target, dry_run)
    \/ ScanReplace(p)
    \/ ScanWriteError(p)
    \/ Crash(p)

Spec == Init /\ [][Next]_vars

(***************************************************************************)
(* The sequential specification: one G-code file, and invocations that run *)
(* to their end one at a time, as the print host issues them.              *)
(***************************************************************************)
InitSeq ==
  /\ disk = Absent
  /\ pc = [p \in Procs |-> "idle"]
  /\ loaded = [p \in Procs |-> NoData]
  /\ mem = [p \in Procs |-> NoData]
  /\ stale = {}
  /\ out = [p \in Procs |-> NoOut]
  /\ gcode \in ScanTargets
  /\ calls = 0
  /\ env = DefaultEnv
  /\ tracker_file = Absent

\* update_tool_change.py run as a whole
AdvanceCall(p) ==
  /\ calls < MaxCalls
  /\ LET r == update_tool_change(disk)
     IN /\ disk' = r.file
        /\ out' = [out EXCEPT ![p] = r.out]
  /\ calls' = calls + 1
  /\ UNCHANGED <<pc, loaded, mem, stale, gcode, env, tracker_file>>

\* tool_change_tracker.py scan run as a whole
ScanCall(p, dry_run) ==
  /\ \E r \in {ScanResults[gcode][dry_run]} :
     \E w \in {safe_write_json(r.data)} :
        IF r.status # 0 \/ (r.write /\ w.raised)
          THEN /\ out' = [out EXCEPT ![p] = IF r.early THEN ScanRejected
                                               ELSE ScanError]
               /\ UNCHANGED <<disk, calls, tracker_file>>
        ELSE IF ~r.write
          THEN /\ out' = [out EXCEPT ![p] = DryRunOk(r.data)]
               /\ UNCHANGED <<disk, calls, tracker_file>>
        ELSE /\ IF DATA_FILE_scan(env) = DATA_FILE_advance(env)
                  THEN disk' = w.file /\ UNCHANGED tracker_file
                  ELSE tracker_file' = w.file /\ UNCHANGED disk
             /\ out' = [out EXCEPT ![p] = ScanOk(r.data)]
             /\ calls' = 0
  /\ UNCHANGED <<pc, loaded, mem, stale, gcode, env>>

\* the process slot the driver runs every invocation in
Driver == CHOOSE p \in Procs : TRUE

NextSeq ==
  \/ AdvanceCall(Driver)
  \/ \E dry_run \in BOOLEAN : ScanCall(Driver, dry_run)

SpecSeq == InitSeq /\ [][NextSeq]_vars

(***************************************************************************)
(* The specification of a state document found on disk at start, whatever  *)
(* wrote it: readable or not, of the right schema or not.                  *)
(***************************************************************************)
SomeChanges ==
  ScanLoop(<< [kind |-> "marker", tool |-> 0], [kind |-> "marker", tool |-> 1] >>,
           DefaultFilamentInfo, 1, EmptyDocument).changes

FoundDocuments ==
  {Absent, Garbage, NotMapping}
    \cup { [shape |-> "dict", missing |-> m, wrong |-> w,
            total_changes |-> 2, current_change |-> c, changes |-> SomeChanges] :
             m \in SUBSET Keys, w \in SUBSET Keys, c \in {0, 2} }

InitLoad ==
  /\ disk \in {d \in FoundDocuments : d.shape = "dict" => d.missing \cap d.wrong = {}}
  /\ pc = [p \in Procs |-> "idle"]
  /\ loaded = [p \in Procs |-> NoData]
  /\ mem = [p \in Procs |-> NoData]
  /\ stale = {}
  /\ out = [p \in Procs |-> NoOut]
  /\ gcode = GcodeFile(<< >>)
  /\ calls = 0
  /\ env = DefaultEnv
  /\ tracker_file = Absent

SpecLoad == InitLoad /\ [][Next]_vars

(***************************************************************************)
(* The specification of the installations: the environment is drawn, and   *)
(* the invocations run one at a time on one of the jobs.                   *)
(***************************************************************************)
InitEnv ==
  /\ disk = Absent
  /\ pc = [p \in Procs |-> "idle"]
  /\ loaded = [p \in Procs |-> NoData]
  /\ mem = [p \in Procs |-> NoData]
  /\ stale = {}
  /\ out = [p \in Procs |-> NoOut]
  /\ gcode \in JobTargets
  /\ calls = 0
  /\ env \in Environments
  /\ tracker_file = Absent

SpecEnv == InitEnv /\ [][NextSeq]_vars

(***************************************************************************)
(* The specification of the colour tokens: the file declares one colour,   *)
(* well-formed or not, and the invocations run one at a time.              *)
(***************************************************************************)
InitColour ==
  /\ disk = Absent
  /\ pc = [p \in Procs |-> "idle"]
  /\ loaded = [p \in Procs |-> NoData]
  /\ mem = [p \in Procs |-> NoData]
  /\ stale = {}
  /\ out = [p \in Procs |-> NoOut]
  /\ gcode \in ColourTargets
  /\ calls = 0
  /\ env = DefaultEnv
  /\ tracker_file = Absent

SpecColour == InitColour /\ [][NextSeq]_vars

(***************************************************************************)
(* Properties.                                                             *)
(***************************************************************************)
IsDocument(file) == file.shape = "dict"

\* the step is one of process p: a step of an invocation changes the
\* invocation's position or its output
StepOf(p) == pc'[p] # pc[p] \/ out'[p] # out[p]

\* the 1-based positions of the marker lines of a G-code file
MarkerLines(target) ==
  {i \in 1..Len(target.lines) : target.lines[i].kind = "marker"}

\* C1 (SpecSeq).  After a scan that wrote T events, with advance invocations
\* run one at a time, the N-th advance (1 <= N <= T) reports the scan's N-th
\* event, with its tool number, colour and line, as change N of T, and leaves
\* current_change = N on disk.
C1_NthAdvanceReportsNthEvent ==
  (/\ IsDocument(disk)
   /\ calls \in 1..disk.total_changes
   /\ out[Driver].kind \notin {"scan_ok", "scan_error"})
  => LET event == pre_scan_gcode(gcode, FALSE).data.changes[calls]
     IN /\ disk.current_change = calls
        /\ disk.changes[calls] = event
        /\ out[Driver] = [kind |-> "change", status |-> 0,
                          current_change |-> calls,
                          total_changes |-> disk.total_changes,
                          tool_number |-> event.tool_number,
                          color |-> event.color, line |-> event.line]

\* the third of three events has just been reported, after the first two
C1_Witness ==
  /\ IsDocument(disk)
  /\ disk.total_changes = 3
  /\ calls = 3
  /\ out[Driver].kind = "change"
  /\ out[Driver].current_change = 3
  /\ out[Driver].line = disk.changes[3].line

\* C2 (Spec).  In every state document on disk, under every interleaving of
\* scans and advances, 0 <= current_change <= total_changes.
C2_CursorWithinBounds ==
  IsDocument(disk) =>
    /\ 0 <= disk.current_change
    /\ disk.current_change <= disk.total_changes

\* the cursor has reached the total of a job of three events
C2_Witness ==
  /\ IsDocument(disk)
  /\ disk.total_changes = 3
  /\ disk.current_change = 3

\* C3 (SpecSeq).  On a document with current_change >= total_changes an
\* advance reports completion with status 0 and leaves the document as it
\* is; a step that changes such a document is a scan.
C3_CompleteIsAbsorbing ==
  [][(IsDocument(disk) /\ disk.current_change >= disk.total_changes)
       => /\ AdvanceCall(Driver)
               => /\ out'[Driver].kind = "completed"
                  /\ out'[Driver].status = 0
                  /\ disk' = disk
          /\ disk' # disk => ScanCall(Driver, FALSE)]_vars

\* completion reported for the call after the last event, and for the first
\* call on a job of no events
C3_Witness ==
  /\ IsDocument(disk)
  /\ out[Driver].kind = "completed"
  /\ calls = disk.total_changes + 1
  /\ disk.current_change = disk.total_changes
  /\ disk.total_changes \in {0, 2}

\* C4 (Spec).  A process killed before its write of the document is complete
\* leaves the complete previous document on disk: with no other process
\* running, a killed scan or advance leaves the file as it was, and never
\* empty or truncated.
C4_CrashLeavesCompleteDocument ==
  [][\A p \in Procs :
       (Crash(p) /\ \A q \in Procs \ {p} : pc[q] = "idle")
         => /\ pc[p] = "dump" => IsDocument(disk')
            /\ pc[p] # "dump" => disk' = disk]_vars

\* C5 (Spec).  An invocation that reads the document while another one is
\* writing it reads a complete document.
C5_ReaderSeesCompleteDocument ==
  [][\A p \in Procs :
       (AdvLoad(p) /\ \E q \in Procs \ {p} : pc[q] \in {"dump", "replace"})
         => disk.shape # "garbage"]_vars

\* C6 (SpecLoad).  An advance on a document that exists takes the exit, or
\* goes on to write the data, that it takes on what safe_read_json makes of
\* the document: the canonical empty document when it is unreadable or
\* schema-invalid, on which advance reports completion with status 0.
C6_AdvanceLoadsAsSafeRead ==
  [][\A p \in Procs :
       (AdvLoad(p) /\ Exists(disk))
         => LET r == LoadAndDecide(safe_read_json(disk))
            IN IF r.next = "exit"
                 THEN out'[p] = r.out /\ pc'[p] = "idle"
                 ELSE pc'[p] = "open" /\ mem'[p] = r.data]_vars

\* C7 (Spec).  An advance with no state document reports the error, exits
\* with a non-zero status, creates no document and reports no tool change.
C7_AdvanceWithoutDocument ==
  [][\A p \in Procs :
       (AdvLoad(p) /\ disk = Absent)
         => /\ out'[p].kind = "not_found"
            /\ out'[p].status # 0
            /\ disk' = Absent
            /\ pc'[p] = "idle"]_vars

\* the error has been reported and there is still no document
C7_Witness ==
  \E p \in Procs : out[p].kind = "not_found" /\ disk = Absent

\* C8 (Spec).  The document a scan computes has current_change = 0 and the
\* count and the tool numbers of the scanned file's markers, whatever is on
\* disk, and the scan's write puts exactly that document on disk.
C8_ScanReplacesDocument ==
  [][\A p \in Procs :
       /\ \A target \in JobTargets :
            (pc'[p] = "replace" /\ ScanStart(p, target, FALSE))
              => /\ mem'[p].current_change = 0
                 /\ mem'[p].total_changes = Cardinality(MarkerLines(target))
                 /\ Len(mem'[p].changes) = Cardinality(MarkerLines(target))
                 /\ \A i \in 1..Len(mem'[p].changes) :
                      LET e == mem'[p].changes[i]
                      IN /\ e.line \in MarkerLines(target)
                         /\ e.tool_number = target.lines[e.line].tool
       /\ ScanReplace(p)
            => /\ disk' = mem[p]
               /\ IsDocument(disk')
               /\ disk'.current_change = 0
               /\ out'[p] = [kind |-> "scan_ok", status |-> 0,
                             found |-> disk'.total_changes]]_vars

\* a scan has replaced the document of another job that had been advanced
C8_Witness ==
  \E p, q \in Procs :
    /\ out[p].kind = "scan_ok"
    /\ out[q].kind = "change"
    /\ IsDocument(disk)
    /\ disk.current_change = 0
    /\ disk.total_changes = out[p].found
    /\ disk.total_changes # out[q].total_changes

\* C9 as claimed (Spec).  Under every interleaving of advances, the write an
\* advance starts on a document of its own job stores a current_change at
\* least the one on disk.
C9_WriteNeverDecreasesCursor ==
  [][\A p \in Procs :
       (/\ AdvOpen(p)
        /\ IsDocument(disk)
        /\ disk.changes = mem[p].changes
        /\ disk.total_changes = mem[p].total_changes)
         => mem[p].current_change >= disk.current_change]_vars

\* C9 as amended (Spec).  A write that an advance starts while the document
\* on disk is still the one it read, as it is when advance invocations run
\* one at a time, stores the current_change on disk plus one, and so not less
\* than the one on disk; it rewrites the rest of the document as it is.
C9_UnoverlappedWriteIncrementsCursor ==
  [][\A p \in Procs :
       /\ (AdvOpen(p) /\ disk = loaded[p])
            => /\ mem[p].current_change = disk.current_change + 1
               /\ mem[p].current_change >= disk.current_change
               /\ mem[p].changes = disk.changes
               /\ mem[p].total_changes = disk.total_changes
       /\ (AdvDump(p) /\ p \notin stale) => disk' = mem[p]]_vars

\* a second advance, begun after the first one's write, has written 2
C9_Witness ==
  \E p \in Procs :
    /\ pc[p] = "report"
    /\ IsDocument(disk)
    /\ disk = mem[p]
    /\ loaded[p].current_change = 1
    /\ disk.current_change = 2

\* C10 (SpecSeq).  A scan of a file with K marker lines writes a document
\* with total_changes = K and K events, the i-th with the line number and the
\* tool number of the i-th marker line, so with strictly increasing lines;
\* and total_changes = len(changes) in every document on disk, after any
\* advance.
C10_ScanRoundTrip ==
  [][/\ IsDocument(disk') => disk'.total_changes = Len(disk'.changes)
     /\ (ScanCall(Driver, FALSE) /\ out'[Driver].kind = "scan_ok")
          => LET K == Cardinality(MarkerLines(gcode))
             IN /\ IsDocument(disk')
                /\ disk'.total_changes = K
                /\ Len(disk'.changes) = K
                /\ {disk'.changes[i].line : i \in 1..K} = MarkerLines(gcode)
                /\ \A i \in 1..K :
                     /\ i < K => disk'.changes[i].line < disk'.changes[i + 1].line
                     /\ disk'.changes[i].tool_number
                          = gcode.lines[disk'.changes[i].line].tool]_vars

\* two markers on lines 1 and 3 of a three-line file, after one advance
C10_Witness ==
  /\ IsDocument(disk)
  /\ disk.total_changes = 2
  /\ disk.changes[1].line = 1
  /\ disk.changes[2].line = 3
  /\ disk.current_change = 1

\* C11 (Spec).  A scan of a target that is not found, is missing, has not
\* the .gcode extension or cannot be read ends at once with a non-zero
\* status and leaves the state document as it is, whatever the document is
\* and with or without the dry-run flag.
C11_RejectedScanKeepsDocument ==
  [][\A p \in Procs, target \in BadTargets, dry_run \in BOOLEAN :
       (StepOf(p) /\ ScanStart(p, target, dry_run))
         => /\ out'[p].kind = "scan_error"
            /\ out'[p].status # 0
            /\ pc'[p] = "idle"
            /\ disk' = disk]_vars

\* a scan has been rejected while the document of a job of three events,
\* advanced twice, is on disk
C11_Witness ==
  \E p \in Procs :
    /\ out[p] = ScanRejected
    /\ \A q \in Procs : pc[q] = "idle"
    /\ IsDocument(disk)
    /\ disk.total_changes = 3
    /\ disk.current_change = 2

\* C12 (Spec).  A dry-run scan of a file that can be scanned ends at once
\* with status 0 and the count of the file's markers, and leaves the state
\* document as it is: absent if it was absent, and with the events and the
\* cursor it had, so that the next advance reads the cursor of the job on
\* disk.
C12_DryRunKeepsDocument ==
  [][\A p \in Procs, target \in JobTargets \ BadTargets :
       (StepOf(p) /\ ScanStart(p, target, TRUE))
         => /\ out'[p].kind = "scan_ok"
            /\ out'[p].status = 0
            /\ out'[p].found = Cardinality(MarkerLines(target))
            /\ pc'[p] = "idle"
            /\ disk' = disk
            /\ LoadAndDecide(disk') = LoadAndDecide(disk)]_vars

\* a dry run has counted the two markers of one file while the document of
\* a job of three events, advanced once, is on disk
C12_Witness ==
  \E p \in Procs :
    /\ out[p] = DryRunOk(Document(2, 0, << >>))
    /\ \A q \in Procs : pc[q] = "idle"
    /\ IsDocument(disk)
    /\ disk.total_changes = 3
    /\ disk.current_change = 1

\* C13 (Spec).  Two advance invocations in flight that read the same
\* document with current_change = k hold the same data, with k < total_changes
\* and current_change = k + 1; each one's write stores k + 1, so the second
\* write stores the document of the first again and not k + 2; and each
\* reports the same event, the one at position k + 1 of the document read.
C13_OverlappingAdvancesLoseUpdate ==
  [][\A p, q \in Procs :
       (/\ p # q
        /\ pc[p] \in {"open", "dump", "report"}
        /\ pc[q] \in {"open", "dump", "report"}
        /\ loaded[p] = loaded[q])
         => LET k == loaded[p].current_change
            IN /\ k < loaded[p].total_changes
               /\ mem[p] = mem[q]
               /\ mem[p].current_change = k + 1
               /\ (AdvDump(p) /\ p \notin stale)
                    => /\ disk' = mem[q]
                       /\ disk'.current_change = k + 1
               /\ AdvReport(p)
                    => /\ out'[p] = ChangeMessage(mem[q])
                       /\ out'[p].current_change = k + 1
                       /\ out'[p].line = loaded[p].changes[k + 1].line
                       /\ out'[p].tool_number
                            = loaded[p].changes[k + 1].tool_number]_vars

\* both invocations read the document of a job of three events at cursor 0,
\* both have written, and the cursor on disk is 1
C13_Witness ==
  \E p, q \in Procs :
    /\ p # q
    /\ pc[p] = "report"
    /\ pc[q] = "report"
    /\ loaded[p] = loaded[q]
    /\ loaded[p].current_change = 0
    /\ loaded[p].total_changes = 3
    /\ disk = mem[p]
    /\ disk = mem[q]
    /\ disk.current_change = 1

\* C14 (Spec).  An advance never replaces the job a scan wrote by the job it
\* read before that scan: the document it opens for writing, which line 124
\* truncates and line 125 rewrites from the data read, holds the events of the
\* document it read.
C14_ScanSupersedesEarlierReads ==
  [][\A p \in Procs :
       (AdvOpen(p) /\ IsDocument(disk))
         => /\ disk.changes = loaded[p].changes
            /\ disk.total_changes = loaded[p].total_changes]_vars

\* C15 (Spec).  Within one advance invocation that read cursor k the order
\* is increment, persist, report.  A tool-change report appears only by the
\* report step, which follows the step that wrote the document with
\* current_change = k + 1, and it reports the event at position k + 1 of the
\* document read; until then the invocation has printed nothing, and an
\* invocation that takes an early exit or is killed before or during the
\* write reports no tool change.  With no other invocation ever run beside
\* it, the cursor on disk is k + 1 when the report is made.
C15_PersistBeforeReport ==
  [][\A p \in Procs :
       /\ (out'[p] # out[p] /\ out'[p].kind = "change")
            => AdvReport(p) /\ pc[p] = "report"
       /\ (pc'[p] = "report" /\ pc[p] # "report")
            => /\ AdvDump(p)
               /\ mem[p].current_change = loaded[p].current_change + 1
               /\ p \notin stale => disk' = mem[p]
       /\ pc[p] \in {"open", "dump", "report"} => out[p] = NoOut
       /\ (Crash(p) \/ (AdvLoad(p) /\ pc'[p] = "idle"))
            => out'[p].kind # "change"
       /\ AdvReport(p)
            => LET k == loaded[p].current_change
               IN /\ out'[p].kind = "change"
                  /\ out'[p].current_change = k + 1
                  /\ out'[p].tool_number = loaded[p].changes[k + 1].tool_number
                  /\ out'[p].color = loaded[p].changes[k + 1].color
                  /\ out'[p].line = loaded[p].changes[k + 1].line
                  /\ (\A q \in Procs \ {p} : pc[q] = "idle" /\ out[q] = NoOut)
                       => /\ IsDocument(disk)
                          /\ disk.current_change = k + 1]_vars

\* one process alone has scanned a job of three events and advanced twice:
\* the second change is reported and the cursor on disk is 2
C15_Witness ==
  \E p \in Procs :
    /\ \A q \in Procs \ {p} : pc[q] = "idle" /\ out[q] = NoOut
    /\ pc[p] = "idle"
    /\ out[p].kind = "change"
    /\ out[p].current_change = 2
    /\ out[p].total_changes = 3
    /\ IsDocument(disk)
    /\ disk.current_change = 2

\* the file with every malformed directive line (one with no value part)
\* replaced by a line that is no directive, the line numbers kept
WithoutMalformed(target) ==
  [target EXCEPT !.lines =
     [i \in 1..Len(target.lines) |->
        IF target.lines[i].kind \in {"colour", "settings"} /\ ~target.lines[i].value
          THEN [kind |-> "other"] ELSE target.lines[i]]]

\* C16 (SpecSeq).  A malformed metadata line is skipped: the events a scan
\* writes are the events of the same file without its malformed lines, so
\* they carry the filament entries of the well-formed metadata lines, and
\* the 5-slot default list only when no line yields an entry.
C16_MalformedLineIsSkipped ==
  (IsDocument(disk) /\ gcode.readable)
    => /\ extract_filament_info(gcode) = extract_filament_info(WithoutMalformed(gcode))
       /\ disk.changes = pre_scan_gcode(WithoutMalformed(gcode), FALSE).data.changes

\* C17 (SpecSeq).  An advance changes nothing but current_change in the
\* document: after any number of advances total_changes and changes (every
\* event with its six fields, in order) are what the scan of the file wrote.
C17_AdvanceChangesOnlyCursor ==
  [][/\ IsDocument(disk')
          => /\ disk'.total_changes = ScanResults[gcode][FALSE].data.total_changes
             /\ disk'.changes = ScanResults[gcode][FALSE].data.changes
     /\ (AdvanceCall(Driver) /\ IsDocument(disk))
          => /\ disk' = [disk EXCEPT !.current_change = disk'.current_change]
             /\ disk'.current_change \in
                  {disk.current_change, disk.current_change + 1}]_vars

\* four advances on a job of three events: the events on disk are still the
\* scan's, the third one that of the marker T1 on line 3
C17_Witness ==
  /\ IsDocument(disk)
  /\ calls = 4
  /\ disk.current_change = 3
  /\ Len(disk.changes) = 3
  /\ disk.changes = ScanResults[gcode][FALSE].data.changes
  /\ disk.changes[3].color = "Blue"
  /\ disk.changes[3].line = 3

\* C18 (SpecEnv).  In every environment the scan and the advance resolve
\* the same DATA_FILE, so the document a successful scan wrote is the file
\* the next advance reads.
C18_SameStateDocumentPath ==
  [][(ScanCall(Driver, FALSE) /\ out'[Driver] = ScanOk(ScanResults[gcode][FALSE].data))
       => /\ DATA_FILE_scan(env) = DATA_FILE_advance(env)
          /\ disk' = ScanResults[gcode][FALSE].data
          /\ LoadAndDecide(disk') # [next |-> "exit", out |-> NotFound]]_vars

\* C19 (SpecSeq).  The scan of a file that can be read does not fail, and
\* every event it writes has the tool number of its marker line and, when
\* that number is at least the length of the filament list, "Unknown" as
\* color, brand, material and full_name, and otherwise the color_name,
\* brand, material and full_name of the list entry at that index.
C19_EventFromListOrUnknown ==
  /\ (gcode \notin BadTargets /\ out[Driver].kind = "scan_error") => FALSE
  /\ IsDocument(disk) =>
       LET filament_info == extract_filament_info(gcode)
       IN \A i \in 1..Len(disk.changes) :
            LET e == disk.changes[i]
                tool_number == gcode.lines[e.line].tool
            IN /\ e.tool_number = tool_number
               /\ tool_number >= Len(filament_info)
                    => /\ e.color = "Unknown"
                       /\ e.brand = "Unknown"
                       /\ e.material = "Unknown"
                       /\ e.full_name = <<"Unknown">>
               /\ tool_number < Len(filament_info)
                    => /\ e.color = filament_info[tool_number + 1].color_name
                       /\ e.brand = filament_info[tool_number + 1].brand
                       /\ e.material = filament_info[tool_number + 1].material
                       /\ e.full_name = filament_info[tool_number + 1].full_name

\* a list of two entries read from the file: the marker T1 has the second
\* entry's brand and material, the marker T2, the first past the end, has
\* "Unknown"
C19_Witness ==
  /\ IsDocument(disk)
  /\ Len(extract_filament_info(gcode)) = 2
  /\ \E i, j \in 1..Len(disk.changes) :
       /\ disk.changes[i].tool_number = 1
       /\ disk.changes[i].brand = "Generic"
       /\ disk.changes[i].material = "PETG"
       /\ disk.changes[i].full_name = <<"Generic", "PETG">>
       /\ disk.changes[j].tool_number = 2
       /\ disk.changes[j].brand = "Unknown"
       /\ disk.changes[j].color = "Unknown"

\* a 7-character string "#RRGGBB" of hex digits
WellFormedHex(hex_color) ==
  /\ Len(hex_color) = 7
  /\ hex_color[1] = "#"
  /\ \A k \in 2..7 : IsHex(hex_color[k])

\* C20 (SpecColour).  The event of tool 0 has the name the classifier gives
\* the declared colour: "Unknown" for every token that is not a 7-character
\* "#RRGGBB" of hex digits, shorter and longer tokens included, and a name of
\* the reference table for every well-formed one.
C20_MalformedColourIsUnknown ==
  (IsDocument(disk) /\ Len(disk.changes) = 1)
    => LET hex_color == gcode.lines[1].tokens[1]
       IN /\ disk.changes[1].color = closest_css_color(hex_color)
          /\ ~WellFormedHex(hex_color) => disk.changes[1].color = "Unknown"
          /\ WellFormedHex(hex_color)
               => \E i \in 1..Len(CSS_NAMED_COLORS) :
                    disk.changes[1].color = CSS_NAMED_COLORS[i][4]

\* the lists colors and types of extract_filament_info when its loop over
\* the lines ends, at the last line or at the line that raised
SourceEntries(target) ==
  ExtractLoop(target.lines, 1,
              [colors |-> << >>, types |-> << >>, raised |-> FALSE])

\* C21 (SpecSeq).  For a scanned file from which the extractor has gathered
\* the lists colors and types, it returns max(len(colors), len(types))
\* entries when that is not 0, entry i pairing the i-th color with the i-th
\* type, with ("#FFFFFF", "Unknown") for a missing color and "Unknown" as
\* brand, material and full_name for a missing type; and when both lists
\* are empty it returns five entries named Yellow, Blue, Silver, Green and
\* White.
C21_MergeRule ==
  (IsDocument(disk) /\ gcode.readable)
    => LET colors == SourceEntries(gcode).colors
           types == SourceEntries(gcode).types
           n == IF Len(colors) >= Len(types) THEN Len(colors) ELSE Len(types)
           filament_info == extract_filament_info(gcode)
       IN IF n > 0
            THEN /\ Len(filament_info) = n
                 /\ \A i \in 1..n :
                      /\ i <= Len(colors)
                           => /\ filament_info[i].hex_color = colors[i][1]
                              /\ filament_info[i].color_name = colors[i][2]
                      /\ i > Len(colors)
                           => /\ filament_info[i].hex_color
                                   = <<"#", "F", "F", "F", "F", "F", "F">>
                              /\ filament_info[i].color_name = "Unknown"
                      /\ i <= Len(types)
                           => /\ filament_info[i].brand = types[i].brand
                              /\ filament_info[i].material = types[i].material
                              /\ filament_info[i].full_name = types[i].full_name
                      /\ i > Len(types)
                           => /\ filament_info[i].brand = "Unknown"
                              /\ filament_info[i].material = "Unknown"
                              /\ filament_info[i].full_name = <<"Unknown">>
            ELSE /\ Len(filament_info) = 5
                 /\ [i \in 1..5 |-> filament_info[i].color_name]
                      = <<"Yellow", "Blue", "Silver", "Green", "White">>

\* C21 for the files with no malformed metadata line: the merge rule as
\* the claim states it
C21_MergeRuleOfWellFormedFiles ==
  (gcode = WithoutMalformed(gcode)) => C21_MergeRule

=============================================================================
